---- MODULE Spec2Model ----
(***************************************************************************)
(* The undo history of codemirror/commands: the history core (Item,        *)
(* Branch, updateBranch, addChanges, popChanges, HistoryState) and the     *)
(* editor that drives it with tracked transactions, untracked              *)
(* transactions and the undo/redo commands.                                *)
(*                                                                         *)
(* A document is a sequence of one-character strings.  A Change is a       *)
(* record [from, to, text]; a ChangeDesc is [from, to, length]; a          *)
(* ChangeSet is the sequence of its changes, each applying to the document *)
(* the previous one produced.  A value that the code holds as null is an   *)
(* empty sequence here and a present value a one-element sequence, except  *)
(* Item.inverted, whose presence is the isChange field.                    *)
(***************************************************************************)
EXTENDS Integers, Sequences, FiniteSets, TLC

VARIABLES
  installed,  \* whether the state was created with the history extension
  minDepth,   \* the configured minDepth, handed to the core as maxLen
  joinPredicate, \* the configured merge predicate, by name
  field,      \* the value of a state field an extension owns, set by effects
  heap,       \* the Branch arrays and HistoryState objects allocated so far, by address
  doc,        \* EditorState.doc
  sel,        \* EditorState.selection: a sequence of ranges [anchor, head]
  hist,       \* the HistoryState field: [done, undone, prevTime]
  now,        \* the clock the transactions' time annotation is read from
  lastEdit,   \* time, isolation marker, selection set and field replaced of the last tracked
              \* document edit, <<>> if none
  ret,        \* what the last command returned: "none", "true", "false", "throw"
  op,         \* the last operation dispatched, with its inputs
  nops,       \* operations the behaviour may still perform
  trail,      \* the run of undos under way: the document and selection saved
              \* before each, and how many of them were redone since
  group       \* document and selection before the first edit of the top record

vars == <<installed, minDepth, joinPredicate, field, heap, doc, sel, hist, now, lastEdit, ret, op, nops, trail, group>>

----------------------------------------------------------------------------
(* Bounds of the model and constants of the program *)

\* updateBranch's grace margin: a branch is trimmed once it would exceed maxLen + 20
Grace == 20

\* the configured grouping window
NewGroupDelay == 2

\* longest document of the editor specification
MaxDoc == 3

\* operations of one behaviour of the editor specification
MaxOps == 3

\* operations of one behaviour of the round-trip specification
MaxRoundOps == 6

\* operations of one behaviour of the grouping specification
MaxTimedOps == 4

\* operations of one behaviour of the untracked-insertion specification
MaxTolOps == 4

\* untracked edits of one behaviour of the trimming specification
MaxTrimReceives == 3

\* largest minDepth configured
MaxMinDepth == 1

\* operations of a behaviour with one tracked edit, selections, undo and redo
MaxSelOps == 5

\* operations of a behaviour with tracked insertions, untracked deletions, undo
\* and redo
MaxCollapseOps == 5

\* edits, and operations in all, of a behaviour with tracked and untracked edits
\* followed by undos and redos
MaxCycleEdits == 3

MaxCycleOps == 7

\* operations of a behaviour with a configured merge predicate
MaxJoinOps == 4

\* operations of a behaviour of selection-only transactions, undoSelection and
\* redoSelection
MaxSelectionOps == 4

\* operations of a behaviour with tracked edits, selections, undo, redo and a
\* serialization round trip of the history
MaxJSONOps == 4

\* operations of a behaviour with tracked edits that carry effects, untracked
\* edits, undo and redo
MaxEffectOps == 4

\* operations of a behaviour that calls the operations of HistoryState on any
\* of the states returned so far
MaxHeapOps == 3

\* operations of a behaviour that fills a branch up to minDepth plus the grace
\* margin, moves every record to the other branch and adds one more
MaxBoundOps == 44

\* untracked edits of such a behaviour
MaxBoundReceives == 1

\* operations of a behaviour with a selection, one tracked insertion, untracked
\* insertions after it and one command
MaxRebaseOps == 5

----------------------------------------------------------------------------
(* Sequences *)

Min(a, b) == IF a <= b THEN a ELSE b

Max(a, b) == IF a >= b THEN a ELSE b

\* Array.prototype.slice(start, end) with 0-based indices
Slice(s, start, end) == SubSeq(s, start + 1, end)

----------------------------------------------------------------------------
(* Text, Change, ChangeDesc, ChangeSet *)

\* Text.replace(from, to, text)
Replace(d, from, to, text) == Slice(d, 0, from) \o text \o Slice(d, to, Len(d))

\* Change.apply(doc)
Apply(ch, d) == Replace(d, ch.from, ch.to, ch.text)

\* Change.invert(doc)
Invert(ch, d) == [from |-> ch.from, to |-> ch.from + Len(ch.text), text |-> Slice(d, ch.from, ch.to)]

\* Change.desc
Desc(ch) == [from |-> ch.from, to |-> ch.to, length |-> Len(ch.text)]

\* ChangeSet.desc
DescSet(chs) == [i \in 1..Len(chs) |-> Desc(chs[i])]

\* ChangeSet.appendSet(changes)
appendSet(a, b) == a \o b

\* ChangeDesc.mapPos(pos, bias)
mapPosDesc(d, pos, bias) ==
  IF pos < d.from THEN pos
  ELSE IF pos > d.to THEN pos + (d.length - (d.to - d.from))
  ELSE IF pos > d.from /\ pos < d.to
    THEN (IF bias <= 0 THEN d.from ELSE d.from + d.length)
  ELSE IF (IF d.from = d.to THEN bias <= 0 ELSE pos = d.from)
    THEN d.from
  ELSE d.from + d.length

\* ChangeSet.mapInner(pos, bias, fromI, toI), forward, for a set without mirrors
RECURSIVE mapInner(_, _, _, _, _)
mapInner(set, pos, bias, fromI, toI) ==
  IF fromI >= toI THEN pos
  ELSE mapInner(set, mapPosDesc(set[fromI + 1], pos, bias), bias, fromI + 1, toI)

\* ChangeSet.mapPos(pos, bias)
mapPos(set, pos, bias) == mapInner(set, pos, bias, 0, Len(set))

\* Change.map(mapping) for mapping = set.partialMapping(fromI): a one-element
\* sequence holding the mapped change, or the empty sequence for null
MapChange(ch, set, fromI) ==
  LET from == mapInner(set, ch.from, 1, fromI, Len(set))
      to == mapInner(set, ch.to, -1, fromI, Len(set))
  IN IF from > to THEN <<>> ELSE <<[from |-> from, to |-> to, text |-> ch.text]>>

\* SelectionRange.map(mapping)
MapRange(r, set) == [anchor |-> mapPos(set, r.anchor, -1), head |-> mapPos(set, r.head, -1)]

\* EditorSelection.map(mapping)
MapSelection(s, set) == [i \in 1..Len(s) |-> MapRange(s[i], set)]

\* the document after the changes of a set, applied in order
RECURSIVE ApplySet(_, _)
ApplySet(chs, d) == IF chs = <<>> THEN d ELSE ApplySet(Tail(chs), Apply(Head(chs), d))

\* Transaction.invertedChanges(): the inverses of the changes, last change first
RECURSIVE InvertedChanges(_, _)
InvertedChanges(chs, d) ==
  IF chs = <<>> THEN <<>>
  ELSE InvertedChanges(Tail(chs), Apply(Head(chs), d)) \o <<Invert(Head(chs), d)>>

----------------------------------------------------------------------------
(* Transaction *)

\* Transaction.change(change), over the changes of a set: a change that neither
\* deletes nor inserts is skipped, one outside the document raises a RangeError.
\* [ok, changes, doc]: the changes the transaction holds and the document it ends in
RECURSIVE TransactionChange(_, _, _)
TransactionChange(chs, applied, d) ==
  IF chs = <<>> THEN [ok |-> TRUE, changes |-> applied, doc |-> d]
  ELSE LET ch == Head(chs) IN
    IF ch.from = ch.to /\ Len(ch.text) = 0 THEN TransactionChange(Tail(chs), applied, d)
    ELSE IF ch.from < 0 \/ ch.to < ch.from \/ ch.to > Len(d)
      THEN [ok |-> FALSE, changes |-> applied, doc |-> d]
    ELSE TransactionChange(Tail(chs), Append(applied, ch), Apply(ch, d))

----------------------------------------------------------------------------
(* The history core *)

\* new Item(map, inverted, selection); selection is <<>> for null
Item(map, isChange, inverted, selection) ==
  [map |-> map, isChange |-> isChange, inverted |-> inverted, selection |-> selection]

\* new Item(map): a record of an untracked change
MapItem(map) == Item(map, FALSE, <<>>, <<>>)

\* updateBranch cutting back to the grace margin, and never cutting
updateBranchKeepsGrace(branch, to, maxLen, newItem) ==
  LET start == IF to + 1 > maxLen + Grace THEN to - maxLen - Grace + 1 ELSE 0
  IN Append(Slice(branch, start, to), newItem)

updateBranchNeverTrims(branch, to, maxLen, newItem) ==
  Append(Slice(branch, 0, to), newItem)

updateBranch(branch, to, maxLen, newItem) ==
  LET start == IF to + 1 > maxLen + Grace THEN to - maxLen - 1 ELSE 0
  IN Append(Slice(branch, start, to), newItem)

\* the merge predicates handed to addChanges, by name
isAdjacent(prev, cur) ==
  /\ prev # <<>>
  /\ cur.from <= prev[1].from + prev[1].length
  /\ cur.to >= prev[1].from

\* a caller's predicate: only insertions are merged, into an adjacent change
adjacentInsertion(prev, cur) == isAdjacent(prev, cur) /\ cur.from = cur.to

MayMerge(mayMerge, prev, cur) ==
  CASE mayMerge = "nope" -> FALSE
    [] mayMerge = "isAdjacent" -> isAdjacent(prev, cur)
    [] mayMerge = "adjacentInsertion" -> adjacentInsertion(prev, cur)
    [] OTHER -> TRUE

\* the last change of a set, or <<>> for the undefined the code reads there
LastChange(set) == IF set = <<>> THEN <<>> ELSE <<set[Len(set)]>>

\* addChanges merging without asking the predicate
addChangesIgnoresPredicate(branch, changes, hasInverted, inverted, selectionBefore, maxLen, mayMerge) ==
  IF /\ hasInverted
     /\ Len(branch) > 0
     /\ branch[Len(branch)].isChange
  THEN LET lastItem == branch[Len(branch)] IN
       updateBranch(branch, Len(branch) - 1, maxLen,
                    Item(appendSet(lastItem.map, DescSet(changes)),
                         TRUE, appendSet(inverted, lastItem.inverted), lastItem.selection))
  ELSE updateBranch(branch, Len(branch), maxLen,
                    Item(DescSet(changes), hasInverted, inverted, <<selectionBefore>>))

\* addChanges giving a merged record the selection before the latest edit
addChangesKeepsNewSelection(branch, changes, hasInverted, inverted, selectionBefore, maxLen, mayMerge) ==
  IF /\ hasInverted
     /\ Len(branch) > 0
     /\ branch[Len(branch)].isChange
     /\ MayMerge(mayMerge, LastChange(branch[Len(branch)].map), changes[1])
  THEN LET lastItem == branch[Len(branch)] IN
       updateBranch(branch, Len(branch) - 1, maxLen,
                    Item(appendSet(lastItem.map, DescSet(changes)),
                         TRUE, appendSet(inverted, lastItem.inverted), <<selectionBefore>>))
  ELSE updateBranch(branch, Len(branch), maxLen,
                    Item(DescSet(changes), hasInverted, inverted, <<selectionBefore>>))

\* addChanges(branch, changes, inverted, selectionBefore, maxLen, mayMerge);
\* hasInverted is inverted != null
addChanges(branch, changes, hasInverted, inverted, selectionBefore, maxLen, mayMerge) ==
  IF /\ hasInverted
     /\ Len(branch) > 0
     /\ branch[Len(branch)].isChange
     /\ MayMerge(mayMerge, LastChange(branch[Len(branch)].map), changes[1])
  THEN LET lastItem == branch[Len(branch)] IN
       updateBranch(branch, Len(branch) - 1, maxLen,
                    Item(appendSet(lastItem.map, DescSet(changes)),
                         TRUE, appendSet(inverted, lastItem.inverted), lastItem.selection))
  ELSE updateBranch(branch, Len(branch), maxLen,
                    Item(DescSet(changes), hasInverted, inverted, <<selectionBefore>>))

\* the scan of popChanges stopping at change records only, whatever the filter
RECURSIVE PopScanOnlyChanges(_, _, _, _)
PopScanOnlyChanges(branch, only, idx, map) ==
  IF idx < 0 THEN [idx |-> idx, map |-> map]
  ELSE LET entry == branch[idx + 1] IN
    IF entry.isChange THEN [idx |-> idx, map |-> map]
    ELSE PopScanOnlyChanges(branch, only, idx - 1,
                            IF map # <<>> THEN <<appendSet(entry.map, map[1])>> ELSE <<entry.map>>)

\* the scan of popChanges: from idx down to the item to pop, collecting the maps
\* of the items skipped. [idx, map]: idx is -1 when the scan runs off the branch,
\* map is <<>> for null and <<set>> otherwise
RECURSIVE PopScan(_, _, _, _)
PopScan(branch, only, idx, map) ==
  IF idx < 0 THEN [idx |-> idx, map |-> map]
  ELSE LET entry == branch[idx + 1] IN
    IF only = "Any" \/ entry.isChange THEN [idx |-> idx, map |-> map]
    ELSE PopScan(branch, only, idx - 1,
                 IF map # <<>> THEN <<appendSet(entry.map, map[1])>> ELSE <<entry.map>>)

\* the loop of popChanges that maps the inverted changes over the skipped maps:
\* [map, mappedChanges]
RECURSIVE PopMap(_, _, _, _, _)
PopMap(inverted, startIndex, i, map, mappedChanges) ==
  IF i >= Len(inverted) THEN [map |-> map, mappedChanges |-> mappedChanges]
  ELSE LET mapped == MapChange(inverted[i + 1], map, startIndex - i) IN
    IF mapped # <<>>
      THEN PopMap(inverted, startIndex, i + 1, Append(map, Desc(mapped[1])),
                  Append(mappedChanges, mapped[1]))
      ELSE PopMap(inverted, startIndex, i + 1, map, mappedChanges)

\* popChanges leaving the popped Item on the branch
popChangesKeepsItem(branch, only) ==
  LET scan == PopScan(branch, only, Len(branch) - 1, <<>>) IN
  IF scan.idx < 0
    THEN [ok |-> FALSE, changes |-> <<>>, branch |-> branch, selection |-> <<>>]
  ELSE [ok |-> TRUE, changes |-> branch[scan.idx + 1].inverted,
        branch |-> Slice(branch, 0, scan.idx + 1),
        selection |-> branch[scan.idx + 1].selection]

\* popChanges(branch, only): ok is FALSE where the code throws its RangeError
popChanges(branch, only) ==
  LET scan == PopScan(branch, only, Len(branch) - 1, <<>>) IN
  IF scan.idx < 0
    THEN [ok |-> FALSE, changes |-> <<>>, branch |-> branch, selection |-> <<>>]
  ELSE LET changeItem == branch[scan.idx + 1]
           newBranch == Slice(branch, 0, scan.idx)
       IN IF scan.map = <<>>
            THEN [ok |-> TRUE, changes |-> changeItem.inverted, branch |-> newBranch,
                  selection |-> changeItem.selection]
          ELSE LET startIndex == Len(changeItem.map)
                   m == PopMap(changeItem.inverted, startIndex, 0,
                               appendSet(changeItem.map, scan.map[1]), <<>>)
               IN [ok |-> TRUE, changes |-> m.mappedChanges,
                   branch |-> Append(newBranch, MapItem(m.map)),
                   selection |-> <<MapSelection(changeItem.selection[1], m.map)>>]

\* new HistoryState(done, undone, prevTime); prevTime is <<>> for null
HistoryState(done, undone, prevTime) == [done |-> done, undone |-> undone, prevTime |-> prevTime]

\* HistoryState.empty
empty == HistoryState(<<>>, <<>>, <<>>)

\* resetTime leaving the time of the last edit in place
resetTimeKeepsTime(h) == h

\* HistoryState.resetTime()
resetTime(h) == HistoryState(h.done, h.undone, <<>>)

\* HistoryState.addChanges with a grouping window that includes its end
HistoryAddChangesInclusive(h, changes, hasInverted, inverted, selection, mayMerge, time, newGroupDelay, maxLen) ==
  HistoryState(addChanges(h.done, changes, hasInverted, inverted, selection, maxLen,
                          IF h.prevTime # <<>> /\ time - h.prevTime[1] <= newGroupDelay
                            THEN mayMerge ELSE "nope"),
               h.undone, <<time>>)

\* HistoryState.addChanges ignoring the grouping window
HistoryAddChangesNoWindow(h, changes, hasInverted, inverted, selection, mayMerge, time, newGroupDelay, maxLen) ==
  HistoryState(addChanges(h.done, changes, hasInverted, inverted, selection, maxLen,
                          IF h.prevTime # <<>> THEN mayMerge ELSE "nope"),
               h.undone, <<time>>)

\* HistoryState.addChanges(changes, inverted, selection, mayMerge, time, newGroupDelay, maxLen)
HistoryAddChanges(h, changes, hasInverted, inverted, selection, mayMerge, time, newGroupDelay, maxLen) ==
  HistoryState(addChanges(h.done, changes, hasInverted, inverted, selection, maxLen,
                          IF h.prevTime # <<>> /\ time - h.prevTime[1] < newGroupDelay
                            THEN mayMerge ELSE "nope"),
               h.undone, <<time>>)

\* addMapping recording the untracked change on an empty done branch too
addMappingOnEmpty(h, map, maxLen) ==
  HistoryState(updateBranch(h.done, Len(h.done), maxLen, MapItem(map)), h.undone, <<>>)

\* HistoryState.addMapping(map, maxLen)
addMapping(h, map, maxLen) ==
  IF Len(h.done) = 0 THEN h
  ELSE HistoryState(updateBranch(h.done, Len(h.done), maxLen, MapItem(map)), h.undone, <<>>)

\* enum PopTarget, enum ItemFilter
PopTargets == {"Done", "Undone"}

ItemFilters == {"OnlyChanges", "Any"}

\* the branch a PopTarget names
Target(h, done) == IF done = "Done" THEN h.done ELSE h.undone

\* canPop answering for any item under either filter
canPopAny(h, done, only) == Len(Target(h, done)) > 0

\* HistoryState.canPop(done, only)
canPop(h, done, only) ==
  IF only = "Any" THEN Len(Target(h, done)) > 0
  ELSE \E i \in 1..Len(Target(h, done)) : Target(h, done)[i].isChange

\* pop handing the time of the last edit on to the state it returns
popKeepsTime(h, done, only, d, selection, maxLen) ==
  LET p == popChanges(Target(h, done), only)
      tr == TransactionChange(p.changes, <<>>, d)
      otherBranch == addChanges(IF done = "Done" THEN h.undone ELSE h.done, tr.changes,
                                Len(tr.changes) > 0, InvertedChanges(tr.changes, d),
                                selection, maxLen, "nope")
  IN IF ~p.ok \/ ~tr.ok \/ p.selection = <<>>
       THEN [ok |-> FALSE, doc |-> d, selection |-> selection, state |-> h]
     ELSE [ok |-> TRUE, doc |-> tr.doc, selection |-> p.selection[1],
           state |-> IF done = "Done" THEN HistoryState(p.branch, otherBranch, h.prevTime)
                     ELSE HistoryState(otherBranch, p.branch, h.prevTime)]

\* pop saving the selection it restores, not the one it replaces
popSavesNewSelection(h, done, only, d, selection, maxLen) ==
  LET p == popChanges(Target(h, done), only)
      tr == TransactionChange(p.changes, <<>>, d)
      otherBranch == addChanges(IF done = "Done" THEN h.undone ELSE h.done, tr.changes,
                                Len(tr.changes) > 0, InvertedChanges(tr.changes, d),
                                IF p.selection = <<>> THEN selection ELSE p.selection[1],
                                maxLen, "nope")
  IN IF ~p.ok \/ ~tr.ok \/ p.selection = <<>>
       THEN [ok |-> FALSE, doc |-> d, selection |-> selection, state |-> h]
     ELSE [ok |-> TRUE, doc |-> tr.doc, selection |-> p.selection[1],
           state |-> IF done = "Done" THEN HistoryState(p.branch, otherBranch, <<>>)
                     ELSE HistoryState(otherBranch, p.branch, <<>>)]

\* HistoryState.pop(done, only, transaction, maxLen) on a transaction that starts
\* from document d and the given selection: the document and selection of the
\* transaction it returns and the new HistoryState; ok is FALSE where it throws
\* (popChanges' RangeError, a change outside the document, the null selection of
\* a record that holds none)
pop(h, done, only, d, selection, maxLen) ==
  LET p == popChanges(Target(h, done), only)
      tr == TransactionChange(p.changes, <<>>, d)
      otherBranch == addChanges(IF done = "Done" THEN h.undone ELSE h.done, tr.changes,
                                Len(tr.changes) > 0, InvertedChanges(tr.changes, d),
                                selection, maxLen, "nope")
  IN IF ~p.ok \/ ~tr.ok \/ p.selection = <<>>
       THEN [ok |-> FALSE, doc |-> d, selection |-> selection, state |-> h]
     ELSE [ok |-> TRUE, doc |-> tr.doc, selection |-> p.selection[1],
           state |-> IF done = "Done" THEN HistoryState(p.branch, otherBranch, <<>>)
                     ELSE HistoryState(otherBranch, p.branch, <<>>)]

\* eventCount counting every item of the branch
eventCountAll(h, done) == Len(Target(h, done))

\* HistoryState.eventCount(done)
eventCount(h, done) == Cardinality({i \in 1..Len(Target(h, done)) : Target(h, done)[i].isChange})

----------------------------------------------------------------------------
(* Serialization of the history: toJSON gives plain data (arrays, numbers,
   strings, null as <<>>), fromJSON builds the history state back from it *)

\* Change.toJSON(): [from, to, text]
ChangeToJSON(ch) == <<ch.from, ch.to, ch.text>>

ChangeFromJSON(j) == [from |-> j[1], to |-> j[2], text |-> j[3]]

\* ChangeDesc.toJSON(): [from, to, length]
DescToJSON(d) == <<d.from, d.to, d.length>>

DescFromJSON(j) == [from |-> j[1], to |-> j[2], length |-> j[3]]

\* EditorSelection.toJSON(): the ranges as [anchor, head] pairs
SelectionToJSON(s) == [ranges |-> [i \in 1..Len(s) |-> <<s[i].anchor, s[i].head>>]]

SelectionFromJSON(j) ==
  [i \in 1..Len(j.ranges) |-> [anchor |-> j.ranges[i][1], head |-> j.ranges[i][2]]]

\* an Item as data: its map, its inverted changes or null, its selection or null
ItemToJSON(item) ==
  [map |-> [i \in 1..Len(item.map) |-> DescToJSON(item.map[i])],
   inverted |-> IF item.isChange
                  THEN <<[i \in 1..Len(item.inverted) |-> ChangeToJSON(item.inverted[i])]>>
                  ELSE <<>>,
   selection |-> IF item.selection = <<>> THEN <<>>
                 ELSE <<SelectionToJSON(item.selection[1])>>]

ItemFromJSON(j) ==
  Item([i \in 1..Len(j.map) |-> DescFromJSON(j.map[i])],
       j.inverted # <<>>,
       IF j.inverted = <<>> THEN <<>>
       ELSE [i \in 1..Len(j.inverted[1]) |-> ChangeFromJSON(j.inverted[1][i])],
       IF j.selection = <<>> THEN <<>> ELSE <<SelectionFromJSON(j.selection[1])>>)

\* the history state as data: both branches, not the time of the last edit
toJSON(h) ==
  [done |-> [i \in 1..Len(h.done) |-> ItemToJSON(h.done[i])],
   undone |-> [i \in 1..Len(h.undone) |-> ItemToJSON(h.undone[i])]]

\* fromJSON forgetting the undone branch
fromJSONDropsUndone(j) ==
  HistoryState([i \in 1..Len(j.done) |-> ItemFromJSON(j.done[i])], <<>>, <<>>)

\* the history state built from data
fromJSON(j) ==
  HistoryState([i \in 1..Len(j.done) |-> ItemFromJSON(j.done[i])],
               [i \in 1..Len(j.undone) |-> ItemFromJSON(j.undone[i])],
               <<>>)

----------------------------------------------------------------------------
(* The editor: the history field and the commands *)

\* the documents an editor state is created with
InitDocs == {<<>>, <<"x", "y">>}

\* EditorSelection.single(pos)
Cursor(pos) == <<[anchor |-> pos, head |-> pos]>>

Insertion(pos, text) == [from |-> pos, to |-> pos, text |-> text]

Deletion(from, to) == [from |-> from, to |-> to, text |-> <<>>]

\* the ranges of one to n characters of a document
Ranges(d, n) == {r \in (0..Len(d)) \X (0..Len(d)) : r[2] > r[1] /\ r[2] <= r[1] + n}

\* the change sets of the tracked transactions: an insertion of "t" or a
\* deletion of one character
TrackedChanges(d) ==
  {<<Insertion(p, <<"t">>)>> : p \in {q \in 0..Len(d) : Len(d) < MaxDoc}}
  \cup {<<Deletion(r[1], r[2])>> : r \in Ranges(d, 1)}

\* the change sets of the untracked transactions: an insertion of "u" or a
\* deletion of one or two characters
UntrackedChanges(d) ==
  {<<Insertion(p, <<"u">>)>> : p \in {q \in 0..Len(d) : Len(d) < MaxDoc}}
  \cup {<<Deletion(r[1], r[2])>> : r \in Ranges(d, 2)}

\* the time between two tracked edits: inside the grouping window or not
Gaps == {1, NewGroupDelay}

Isolations == {"none", "before", "after", "full"}

\* the timing and isolation marker of the tracked edits: an unmarked edit inside
\* or outside the grouping window, or a marked edit inside it
Timings == {<<g, "none">> : g \in Gaps} \cup {<<1, i>> : i \in Isolations}

\* the merge predicate the history is configured with
Policy == joinPredicate

\* the selection a tracked edit sets: the cursor after its last change
SelectionAfter(chs) == Cursor(chs[Len(chs)].from + Len(chs[Len(chs)].text))

\* the history field's update for a transaction that is added to the history
TrackedUpdate(h, chs, d, s, time, iso) ==
  LET h1 == IF iso \in {"before", "full"} THEN resetTime(h) ELSE h
      h2 == HistoryAddChanges(h1, chs, Len(chs) > 0, InvertedChanges(chs, d), s,
                              Policy, time, NewGroupDelay, minDepth)
  IN IF iso \in {"after", "full"} THEN resetTime(h2) ELSE h2

\* undoDepth(state), redoDepth(state)
undoDepth == IF installed THEN eventCount(hist, "Done") ELSE 0

redoDepth == IF installed THEN eventCount(hist, "Undone") ELSE 0

\* what the commands since the last edit did: the states before each undo of the
\* current run, the redos that followed, the document before the first undo and
\* the document the first undo that emptied the done branch of changes gave
NoTrail == [saved |-> <<>>, redone |-> 0, top |-> <<>>, low |-> <<>>]

\* no array and no object allocated
NoHeap == [arrays |-> <<>>, states |-> <<>>, editors |-> <<>>]

\* the state every behaviour starts in, but for the document and the configuration
Created ==
  /\ sel = Cursor(0)
  /\ field = 0
  /\ heap = NoHeap
  /\ hist = empty
  /\ now = 0
  /\ lastEdit = <<>>
  /\ ret = "none"
  /\ op = [name |-> "create"]
  /\ trail = NoTrail
  /\ group = <<>>

Init ==
  /\ installed \in BOOLEAN
  /\ minDepth = MaxMinDepth
  /\ joinPredicate = "isAdjacent"
  /\ doc \in InitDocs
  /\ nops = MaxOps
  /\ Created

\* a transaction with document changes, and an effect that sets the extension's
\* field to value, that is added to the history
TrackedWith(chs, gap, iso, value) ==
  /\ doc' = ApplySet(chs, doc)
  /\ sel' = SelectionAfter(chs)
  /\ now' = now + gap
  /\ hist' = IF installed THEN TrackedUpdate(hist, chs, doc, sel, now + gap, iso) ELSE hist
  /\ lastEdit' = <<[time |-> now + gap, closed |-> iso \in {"after", "full"},
                    sel |-> SelectionAfter(chs), was |-> field]>>
  /\ ret' = "none"
  /\ field' = value
  /\ op' = [name |-> "tracked", iso |-> iso, was |-> field]
  /\ nops' = nops - 1
  /\ trail' = NoTrail
  /\ group' = IF installed /\ Len(hist.done) > 0 /\ Len(hist'.done) = Len(hist.done) /\ group # <<>>
                THEN <<[doc |-> group[1].doc, sel |-> group[1].sel, edits |-> group[1].edits + 1]>>
                ELSE <<[doc |-> doc, sel |-> sel, edits |-> 1]>>
  /\ UNCHANGED <<installed, minDepth, joinPredicate, heap>>

\* a transaction with document changes and no effect that is added to the history
Tracked(chs, gap, iso) == TrackedWith(chs, gap, iso, field)

\* whether two selections have as many ranges, empty in the same places
SameShape(a, b) ==
  /\ Len(a) = Len(b)
  /\ \A i \in 1..Len(a) : (a[i].anchor = a[i].head) <=> (b[i].anchor = b[i].head)

\* the merge predicate for a selection-only transaction: it may join the record
\* of the selection-only transaction right before it when both carry the same
\* user event and the selection keeps its shape
SelectionJoin(s, cause) ==
  IF op.name = "select" /\ cause # "none" /\ op.cause = cause /\ SameShape(sel, s)
    THEN "always" ELSE "nope"

\* the history field's update for a selection-only transaction that is added to
\* the history
SelectionUpdate(h, s, prior, cause, time) ==
  HistoryAddChanges(h, <<>>, FALSE, <<>>, prior, SelectionJoin(s, cause), time,
                    NewGroupDelay, minDepth)

\* a transaction that only sets the selection, with its user event, and is added
\* to the history
SelectWith(s, cause) ==
  /\ s # sel
  /\ sel' = s
  /\ now' = now + 1
  /\ hist' = IF installed THEN SelectionUpdate(hist, s, sel, cause, now + 1) ELSE hist
  /\ ret' = "none"
  /\ op' = [name |-> "select", cause |-> cause, prior |-> sel]
  /\ nops' = nops - 1
  /\ trail' = NoTrail
  /\ group' = <<>>
  /\ UNCHANGED <<installed, minDepth, joinPredicate, field, heap, doc, lastEdit>>

\* a selection-only transaction without user event that sets a cursor
Select(pos) == SelectWith(Cursor(pos), "none")

\* a transaction with document changes that is not added to the history
Receive(chs) ==
  /\ doc' = ApplySet(chs, doc)
  /\ sel' = MapSelection(sel, DescSet(chs))
  /\ hist' = IF installed THEN addMapping(hist, DescSet(chs), minDepth) ELSE hist
  /\ ret' = "none"
  /\ op' = [name |-> "receive"]
  /\ nops' = nops - 1
  /\ trail' = NoTrail
  /\ group' = <<>>
  /\ UNCHANGED <<installed, minDepth, joinPredicate, field, heap, now, lastEdit>>

\* the command cmd(target, only): false without a history or with nothing to
\* pop, else the transaction of HistoryState.pop is dispatched
Command(name, target, only) ==
  /\ nops' = nops - 1
  /\ op' = [name |-> name, edits |-> IF group = <<>> THEN 0 ELSE group[1].edits]
  /\ UNCHANGED <<installed, minDepth, joinPredicate, field, heap, now, lastEdit>>
  /\ IF ~installed \/ ~canPop(hist, target, only)
       THEN /\ ret' = "false"
            /\ UNCHANGED <<doc, sel, hist, trail, group>>
     ELSE \E r \in {pop(hist, target, only, doc, sel, minDepth)} :
       IF ~r.ok
         THEN /\ ret' = "throw"
              /\ UNCHANGED <<doc, sel, hist, trail, group>>
       ELSE /\ ret' = "true"
            /\ doc' = r.doc
            /\ sel' = r.selection
            /\ hist' = r.state
            /\ group' = <<>>
            /\ trail' = [saved |-> IF target = "Undone" THEN trail.saved
                                    ELSE IF trail.redone > 0 THEN <<[doc |-> doc, sel |-> sel, field |-> field]>>
                                    ELSE Append(trail.saved, [doc |-> doc, sel |-> sel, field |-> field]),
                         redone |-> IF target = "Undone"
                                      THEN Min(trail.redone + 1, Len(trail.saved))
                                      ELSE 0,
                         top |-> IF target = "Done" /\ trail.top = <<>>
                                   THEN <<doc>> ELSE trail.top,
                         low |-> IF /\ target = "Done"
                                    /\ trail.low = <<>>
                                    /\ eventCount(r.state, "Done") = 0
                                   THEN <<r.doc>> ELSE trail.low]

TrackedOp ==
  /\ nops > 0
  /\ \E chs \in TrackedChanges(doc), t \in Timings : Tracked(chs, t[1], t[2])

SelectOp ==
  /\ nops > 0
  /\ \E pos \in 0..Len(doc) : Select(pos)

ReceiveOp ==
  /\ nops > 0
  /\ \E chs \in UntrackedChanges(doc) : Receive(chs)

undo ==
  /\ nops > 0
  /\ Command("undo", "Done", "OnlyChanges")

redo ==
  /\ nops > 0
  /\ Command("redo", "Undone", "OnlyChanges")

undoSelection ==
  /\ nops > 0
  /\ Command("undoSelection", "Done", "Any")

redoSelection ==
  /\ nops > 0
  /\ Command("redoSelection", "Undone", "Any")

Next ==
  \/ TrackedOp
  \/ SelectOp
  \/ ReceiveOp
  \/ undo
  \/ redo
  \/ undoSelection
  \/ redoSelection

Spec == Init /\ [][Next]_vars

----------------------------------------------------------------------------
(* Round trips: tracked edits inside the grouping window without isolation
   markers, undo and redo *)

InitRound ==
  /\ installed = TRUE
  /\ minDepth = MaxMinDepth
  /\ joinPredicate = "isAdjacent"
  /\ doc \in InitDocs
  /\ nops = MaxRoundOps
  /\ Created

RoundType ==
  /\ nops > 0
  /\ \E chs \in TrackedChanges(doc) : Tracked(chs, 1, "none")

NextRound ==
  \/ RoundType
  \/ undo
  \/ redo

SpecRound == InitRound /\ [][NextRound]_vars

----------------------------------------------------------------------------
(* Grouping: tracked edits inside and outside the grouping window, with and
   without isolation markers, undo and redo *)

InitTimed ==
  /\ installed = TRUE
  /\ minDepth = MaxMinDepth
  /\ joinPredicate = "isAdjacent"
  /\ doc \in InitDocs
  /\ nops = MaxTimedOps
  /\ Created

TimedType ==
  /\ nops > 0
  /\ \E chs \in TrackedChanges(doc), t \in Timings : Tracked(chs, t[1], t[2])

NextTimed ==
  \/ TimedType
  \/ undo
  \/ redo

SpecTimed == InitTimed /\ [][NextTimed]_vars

----------------------------------------------------------------------------
(* One tracked insertion, untracked insertions around and inside it, undo *)

InitTol ==
  /\ installed = TRUE
  /\ minDepth = MaxMinDepth
  /\ joinPredicate = "isAdjacent"
  /\ doc \in InitDocs
  /\ nops = MaxTolOps
  /\ Created

TolType ==
  /\ nops > 0
  /\ lastEdit = <<>>
  /\ \E p \in 0..Len(doc) : Tracked(<<Insertion(p, <<"t", "t">>)>>, 1, "none")

TolReceive ==
  /\ nops > 0
  /\ lastEdit # <<>>
  /\ \E p \in 0..Len(doc) : Receive(<<Insertion(p, <<"u">>)>>)

NextTol ==
  \/ TolType
  \/ TolReceive
  \/ undo

SpecTol == InitTol /\ [][NextTol]_vars

----------------------------------------------------------------------------
(* Trimming: isolated tracked edits and untracked edits until the done branch
   outgrows minDepth by the grace margin *)

\* how many characters c a document holds
Count(d, c) == Cardinality({i \in 1..Len(d) : d[i] = c})

InitTrim ==
  /\ installed = TRUE
  /\ minDepth \in 0..MaxMinDepth
  /\ joinPredicate = "isAdjacent"
  /\ doc = <<>>
  /\ nops = MaxMinDepth + Grace + 3
  /\ Created

TrimType ==
  /\ nops > 0
  /\ Tracked(<<Insertion(Len(doc), <<"t">>)>>, NewGroupDelay, "before")

TrimReceive ==
  /\ nops > 0
  /\ Count(doc, "u") < MaxTrimReceives
  /\ Receive(<<Insertion(0, <<"u">>)>>)

\* an undo of the first record, so that the undone branch holds a record
TrimUndo ==
  /\ Len(hist.done) = 1
  /\ hist.undone = <<>>
  /\ undo

NextTrim ==
  \/ TrimType
  \/ TrimReceive
  \/ TrimUndo

SpecTrim == InitTrim /\ [][NextTrim]_vars

----------------------------------------------------------------------------
(* One tracked edit, selection-only transactions, undo and redo *)

InitSel ==
  /\ installed = TRUE
  /\ minDepth = MaxMinDepth
  /\ joinPredicate = "isAdjacent"
  /\ doc \in InitDocs
  /\ nops = MaxSelOps
  /\ Created

SelType ==
  /\ nops > 0
  /\ lastEdit = <<>>
  /\ \E chs \in TrackedChanges(doc) : Tracked(chs, 1, "none")

NextSel ==
  \/ SelType
  \/ SelectOp
  \/ undo
  \/ redo

SpecSel == InitSel /\ [][NextSel]_vars

----------------------------------------------------------------------------
(* A selection, one tracked insertion, untracked insertions, then undo or
   undoSelection *)

InitRebase ==
  /\ installed = TRUE
  /\ minDepth = MaxMinDepth
  /\ joinPredicate = "isAdjacent"
  /\ doc \in InitDocs
  /\ nops = MaxRebaseOps
  /\ Created

RebaseSelect ==
  /\ lastEdit = <<>>
  /\ SelectOp

RebaseType ==
  /\ nops > 0
  /\ lastEdit = <<>>
  /\ \E p \in 0..Len(doc) : Tracked(<<Insertion(p, <<"t">>)>>, 1, "none")

RebaseReceive ==
  /\ nops > 0
  /\ lastEdit # <<>>
  /\ op.name \in {"tracked", "receive"}
  /\ \E p \in 0..Len(doc) : Receive(<<Insertion(p, <<"u">>)>>)

RebaseUndo ==
  /\ op.name \in {"tracked", "receive"}
  /\ undo

RebaseUndoSelection ==
  /\ op.name \in {"tracked", "receive"}
  /\ undoSelection

NextRebase ==
  \/ RebaseSelect
  \/ RebaseType
  \/ RebaseReceive
  \/ RebaseUndo
  \/ RebaseUndoSelection

SpecRebase == InitRebase /\ [][NextRebase]_vars

----------------------------------------------------------------------------
(* Tracked insertions, untracked deletions over them, undo and redo *)

InitCollapse ==
  /\ installed = TRUE
  /\ minDepth = MaxMinDepth
  /\ joinPredicate = "isAdjacent"
  /\ doc \in InitDocs
  /\ nops = MaxCollapseOps
  /\ Created

CollapseType ==
  /\ nops > 0
  /\ op.name \in {"create", "tracked"}
  /\ Len(doc) < MaxDoc
  /\ \E p \in 0..Len(doc), iso \in {"none", "before"} : Tracked(<<Insertion(p, <<"t">>)>>, 1, iso)

CollapseReceive ==
  /\ nops > 0
  /\ lastEdit # <<>>
  /\ \E r \in Ranges(doc, 2) : Receive(<<Deletion(r[1], r[2])>>)

NextCollapse ==
  \/ CollapseType
  \/ CollapseReceive
  \/ undo
  \/ redo

SpecCollapse == InitCollapse /\ [][NextCollapse]_vars

----------------------------------------------------------------------------
(* Tracked edits of one or two regions and untracked edits, then undos and
   redos *)

InitCycle ==
  /\ installed = TRUE
  /\ minDepth = MaxMinDepth
  /\ joinPredicate = "isAdjacent"
  /\ doc \in InitDocs
  /\ nops = MaxCycleOps
  /\ Created

\* the change sets of the tracked edits: an insertion, or one at the start and
\* one at the end of the document
CycleChanges(d) ==
  {<<Insertion(p, <<"t">>)>> : p \in 0..Len(d)}
  \cup {<<Insertion(0, <<"t">>), Insertion(Len(d) + 1, <<"t">>)>>}

CycleType ==
  /\ nops > MaxCycleOps - MaxCycleEdits
  /\ op.name \in {"create", "tracked", "receive"}
  /\ \E chs \in CycleChanges(doc), iso \in {"none", "before"} : Tracked(chs, 1, iso)

CycleReceive ==
  /\ nops > MaxCycleOps - MaxCycleEdits
  /\ op.name \in {"tracked", "receive"}
  /\ \E chs \in UntrackedChanges(doc) \cup {<<Insertion(p, <<"u">>)>> : p \in 0..Len(doc)} :
       Receive(chs)

NextCycle ==
  \/ CycleType
  \/ CycleReceive
  \/ undo
  \/ redo

SpecCycle == InitCycle /\ [][NextCycle]_vars

----------------------------------------------------------------------------
(* Tracked edits under a merge predicate the caller supplies, and undo *)

\* the merge predicates a history is configured with
JoinPredicates == {"isAdjacent", "adjacentInsertion", "always"}

InitJoin ==
  /\ installed = TRUE
  /\ minDepth = MaxMinDepth
  /\ joinPredicate \in JoinPredicates
  /\ doc \in InitDocs
  /\ nops = MaxJoinOps
  /\ Created

JoinType ==
  /\ nops > 0
  /\ op.name \in {"create", "tracked"}
  /\ \E chs \in TrackedChanges(doc), gap \in Gaps : Tracked(chs, gap, "none")

NextJoin ==
  \/ JoinType
  \/ undo

SpecJoin == InitJoin /\ [][NextJoin]_vars

----------------------------------------------------------------------------
(* Selection-only transactions with their user events, undoSelection and
   redoSelection *)

\* the user events of the selection-only transactions: none, keyboard, pointer
Causes == {"none", "keyboard", "pointer"}

\* the selections set: a cursor under any user event, or from the keyboard a
\* range over the document or a cursor at each end of it
SelectionInputs(d) ==
  {<<Cursor(p), c>> : p \in 0..Len(d), c \in Causes}
  \cup {<<s, "keyboard">> : s \in {<<[anchor |-> 0, head |-> Len(d)]>>,
                                   <<[anchor |-> 0, head |-> 0], [anchor |-> Len(d), head |-> Len(d)]>>}}

InitSelection ==
  /\ installed = TRUE
  /\ minDepth = MaxMinDepth
  /\ joinPredicate = "isAdjacent"
  /\ doc = <<"x", "y">>
  /\ nops = MaxSelectionOps
  /\ Created

SelectionSelect ==
  /\ nops > 0
  /\ \E i \in SelectionInputs(doc) : SelectWith(i[1], i[2])

NextSelection ==
  \/ SelectionSelect
  \/ undoSelection
  \/ redoSelection

SpecSelection == InitSelection /\ [][NextSelection]_vars

----------------------------------------------------------------------------
(* Tracked edits, selections, undo and redo, with the state serialized and read
   back in between *)

InitJSON ==
  /\ installed = TRUE
  /\ minDepth = MaxMinDepth
  /\ joinPredicate = "isAdjacent"
  /\ doc = <<"x", "y">>
  /\ nops = MaxJSONOps
  /\ Created

JSONType ==
  /\ nops > 0
  /\ \E chs \in TrackedChanges(doc), iso \in {"none", "before"} : Tracked(chs, 1, iso)

\* EditorState.fromJSON(JSON.parse(JSON.stringify(state.toJSON(...))), ...): the
\* document and the selection come back as they were, the history from its data
Reload ==
  /\ nops > 0
  /\ op.name # "reload"
  /\ hist' = fromJSON(toJSON(hist))
  /\ op' = [name |-> "reload"]
  /\ ret' = "none"
  /\ nops' = nops - 1
  /\ UNCHANGED <<installed, minDepth, joinPredicate, field, heap, doc, sel, now, lastEdit, trail, group>>

NextJSON ==
  \/ JSONType
  \/ SelectOp
  \/ undo
  \/ redo
  \/ Reload

SpecJSON == InitJSON /\ [][NextJSON]_vars

----------------------------------------------------------------------------
(* Tracked edits that carry an effect for an extension's state field, with an
   inverted-effects function registered, untracked edits, undo and redo *)

\* the values the effects set the field to
EffectValues == {10, 20}

InitEffect ==
  /\ installed = TRUE
  /\ minDepth = MaxMinDepth
  /\ joinPredicate = "isAdjacent"
  /\ doc = <<>>
  /\ nops = MaxEffectOps
  /\ Created

\* an isolated tracked insertion together with an effect that sets the field
EffectType ==
  /\ nops > 0
  /\ Len(doc) < MaxDoc
  /\ \E p \in 0..Len(doc), value \in EffectValues \ {field} :
       TrackedWith(<<Insertion(p, <<"t">>)>>, 1, "full", value)

EffectReceive ==
  /\ nops > 0
  /\ Len(doc) < MaxDoc
  /\ \E p \in 0..Len(doc) : Receive(<<Insertion(p, <<"u">>)>>)

NextEffect ==
  \/ EffectType
  \/ EffectReceive
  \/ undo
  \/ redo

SpecEffect == InitEffect /\ [][NextEffect]_vars

----------------------------------------------------------------------------
(* The core on the heap: a Branch is an array at an address, a HistoryState an
   object holding the addresses of its two arrays. Every operation may be called
   on any state returned so far; heap.editors lists those, each with the document
   and selection of the editor state it belongs to *)

\* updateBranch writing into the array it is given
updateBranchInPlace(arrays, b, to, maxLen, newItem) ==
  [arrays |-> [arrays EXCEPT ![b] = updateBranch(arrays[b], to, maxLen, newItem)],
   ref |-> b]

\* updateBranch on the array at address b: branch.slice(start, to) is a new
\* array, and newItem is pushed onto that one
updateBranchAt(arrays, b, to, maxLen, newItem) ==
  [arrays |-> Append(arrays, updateBranch(arrays[b], to, maxLen, newItem)),
   ref |-> Len(arrays) + 1]

\* addChanges on the array at address b
addChangesAt(arrays, b, changes, hasInverted, inverted, selectionBefore, maxLen, mayMerge) ==
  LET branch == arrays[b] IN
  IF /\ hasInverted
     /\ Len(branch) > 0
     /\ branch[Len(branch)].isChange
     /\ MayMerge(mayMerge, LastChange(branch[Len(branch)].map), changes[1])
  THEN LET lastItem == branch[Len(branch)] IN
       updateBranchAt(arrays, b, Len(branch) - 1, maxLen,
                      Item(appendSet(lastItem.map, DescSet(changes)),
                           TRUE, appendSet(inverted, lastItem.inverted), lastItem.selection))
  ELSE updateBranchAt(arrays, b, Len(branch), maxLen,
                      Item(DescSet(changes), hasInverted, inverted, <<selectionBefore>>))

\* popChanges on the array at address b: newBranch = branch.slice(0, idx) is a
\* new array, onto which the Item for the composed map is pushed
popChangesAt(arrays, b, only) ==
  LET p == popChanges(arrays[b], only) IN
  [ok |-> p.ok, changes |-> p.changes, selection |-> p.selection,
   arrays |-> IF p.ok THEN Append(arrays, p.branch) ELSE arrays,
   ref |-> Len(arrays) + 1]

\* new HistoryState(done, undone, prevTime) holding the addresses of its arrays
HistoryStateAt(done, undone, prevTime) == [done |-> done, undone |-> undone, prevTime |-> prevTime]

\* the value of the HistoryState object at address s
Deref(hp, s) ==
  HistoryState(hp.arrays[hp.states[s].done], hp.arrays[hp.states[s].undone],
               hp.states[s].prevTime)

\* the heap after an operation: its arrays, the HistoryState object it returned
\* if that is a new one, and the editor state that now holds the returned object
Returned(arrays, new, ref, d, s) ==
  [arrays |-> arrays,
   states |-> heap.states \o new,
   editors |-> Append(heap.editors, [doc |-> d, sel |-> s, state |-> ref])]

\* what an operation on the heap leaves alone, and what it notes
HeapStep(name, e) ==
  /\ nops > 0
  /\ nops' = nops - 1
  /\ op' = [name |-> name, on |-> e]
  /\ UNCHANGED <<installed, minDepth, joinPredicate, field, doc, sel, hist, now, lastEdit,
                 ret, trail, group>>

\* static empty = new HistoryState([], []), in the editor state created with it
HeapCreate ==
  /\ heap = NoHeap
  /\ heap' = [arrays |-> <<<<>>, <<>>>>,
              states |-> <<HistoryStateAt(1, 2, <<>>)>>,
              editors |-> <<[doc |-> doc, sel |-> sel, state |-> 1]>>]
  /\ op' = [name |-> "empty", on |-> 0]
  /\ UNCHANGED <<installed, minDepth, joinPredicate, field, doc, sel, hist, now, lastEdit,
                 ret, nops, trail, group>>

\* the tracked and the untracked changes made to a document d
HeapTracked(d) == {<<Insertion(p, <<"t">>)>> : p \in {q \in {0, Len(d)} : Len(d) < MaxDoc}}

HeapUntracked(d) ==
  {<<Insertion(0, <<"u">>)>> : p \in {q \in {0} : Len(d) < MaxDoc}}
  \cup {<<Deletion(0, 1)>> : p \in {q \in {0} : Len(d) > 0}}

\* state.addChanges(...) on the state of editor state e, one time unit after its
\* last edit
HeapAddChanges ==
  \E e \in 1..Len(heap.editors) :
    LET ed == heap.editors[e]
        st == heap.states[ed.state]
        time == IF st.prevTime = <<>> THEN 1 ELSE st.prevTime[1] + 1
    IN \E chs \in HeapTracked(ed.doc) :
         LET r == addChangesAt(heap.arrays, st.done, chs, TRUE, InvertedChanges(chs, ed.doc),
                               ed.sel, minDepth,
                               IF st.prevTime # <<>> /\ time - st.prevTime[1] < NewGroupDelay
                                 THEN Policy ELSE "nope")
         IN /\ heap' = Returned(r.arrays, <<HistoryStateAt(r.ref, st.undone, <<time>>)>>,
                                Len(heap.states) + 1, ApplySet(chs, ed.doc), SelectionAfter(chs))
            /\ HeapStep("addChanges", e)

\* state.addMapping(...) on the state of editor state e
HeapAddMapping ==
  \E e \in 1..Len(heap.editors) :
    LET ed == heap.editors[e]
        st == heap.states[ed.state]
    IN \E chs \in HeapUntracked(ed.doc) :
         LET r == updateBranchAt(heap.arrays, st.done, Len(heap.arrays[st.done]), minDepth,
                                 MapItem(DescSet(chs)))
             d == ApplySet(chs, ed.doc)
             s == MapSelection(ed.sel, DescSet(chs))
         IN /\ heap' = IF Len(heap.arrays[st.done]) = 0
                         THEN Returned(heap.arrays, <<>>, ed.state, d, s)
                         ELSE Returned(r.arrays, <<HistoryStateAt(r.ref, st.undone, <<>>)>>,
                                       Len(heap.states) + 1, d, s)
            /\ HeapStep("addMapping", e)

\* state.resetTime() on the state of editor state e
HeapResetTime ==
  \E e \in 1..Len(heap.editors) :
    LET ed == heap.editors[e]
        st == heap.states[ed.state]
    IN /\ heap' = Returned(heap.arrays, <<HistoryStateAt(st.done, st.undone, <<>>)>>,
                           Len(heap.states) + 1, ed.doc, ed.sel)
       /\ HeapStep("resetTime", e)

\* state.pop(done, only, transaction, maxLen) on the state of editor state e,
\* after canPop, where it completes
HeapPop ==
  \E e \in 1..Len(heap.editors), done \in PopTargets, only \in ItemFilters :
    LET ed == heap.editors[e]
        st == heap.states[ed.state]
        p == popChangesAt(heap.arrays, IF done = "Done" THEN st.done ELSE st.undone, only)
        tr == TransactionChange(p.changes, <<>>, ed.doc)
        o == addChangesAt(p.arrays, IF done = "Done" THEN st.undone ELSE st.done, tr.changes,
                          Len(tr.changes) > 0, InvertedChanges(tr.changes, ed.doc),
                          ed.sel, minDepth, "nope")
    IN /\ canPop(Deref(heap, ed.state), done, only)
       /\ p.ok
       /\ tr.ok
       /\ p.selection # <<>>
       /\ heap' = Returned(o.arrays,
                           <<IF done = "Done" THEN HistoryStateAt(p.ref, o.ref, <<>>)
                             ELSE HistoryStateAt(o.ref, p.ref, <<>>)>>,
                           Len(heap.states) + 1, tr.doc, p.selection[1])
       /\ HeapStep("pop", e)

InitHeap ==
  /\ installed = TRUE
  /\ minDepth = MaxMinDepth
  /\ joinPredicate = "isAdjacent"
  /\ doc = <<"x", "y">>
  /\ nops = MaxHeapOps
  /\ Created

NextHeap ==
  \/ HeapCreate
  \/ HeapAddChanges
  \/ HeapAddMapping
  \/ HeapResetTime
  \/ HeapPop

SpecHeap == InitHeap /\ [][NextHeap]_vars

----------------------------------------------------------------------------
(* Branch sizes: isolated tracked edits that fill the done branch, undos that
   move its records to the undone branch, redos that move them back, and an
   untracked edit *)

InitBound ==
  /\ installed = TRUE
  /\ minDepth \in 0..MaxMinDepth
  /\ joinPredicate = "isAdjacent"
  /\ doc = <<>>
  /\ nops = MaxBoundOps
  /\ Created

\* a tracked insertion at the end of the document: while nothing was undone,
\* when everything was, or to fill the done branch again after one undo
BoundType ==
  /\ nops > 0
  /\ \/ hist.undone = <<>>
     \/ hist.done = <<>>
     \/ /\ Len(hist.undone) = 1
        /\ op.name = "undo"
        /\ Len(hist.done) = minDepth + Grace - 1
  /\ Tracked(<<Insertion(Len(doc), <<"t">>)>>, 1, "before")

\* an untracked insertion at the start of the document, early and before any undo
BoundReceive ==
  /\ nops > 0
  /\ hist.undone = <<>>
  /\ Len(hist.done) <= 2
  /\ Count(doc, "u") < MaxBoundReceives
  /\ Receive(<<Insertion(0, <<"u">>)>>)

\* an undo after an edit or another undo
BoundUndo ==
  /\ canPop(hist, "Done", "OnlyChanges")
  /\ op.name \in {"tracked", "receive", "undo"}
  /\ undo

\* a redo of the only undone record, onto a done branch that is full or empty
BoundRedo ==
  /\ canPop(hist, "Undone", "OnlyChanges")
  /\ Len(hist.undone) = 1
  /\ hist.done = <<>> \/ Len(hist.done) >= minDepth + Grace - 1
  /\ redo

NextBound ==
  \/ BoundType
  \/ BoundReceive
  \/ BoundUndo
  \/ BoundRedo

SpecBound == InitBound /\ [][NextBound]_vars

----------------------------------------------------------------------------
(* The claims *)

Top(branch) == branch[Len(branch)]

\* C1: after N undos of tracked edits made inside the grouping window without
\* isolation markers, each of the N redos that follow succeeds and restores the
\* document and the selection that existed before the corresponding undo, the
\* last of them those before the first undo.
C1_RoundTrip ==
  [][(op'.name = "redo" /\ trail.redone < Len(trail.saved))
       => /\ ret' = "true"
          /\ doc' = trail.saved[Len(trail.saved) - trail.redone].doc
          /\ sel' = trail.saved[Len(trail.saved) - trail.redone].sel]_vars

\* two undos and then two redos have run, the last redo just now
C1_Witness ==
  /\ op.name = "redo"
  /\ ret = "true"
  /\ Len(trail.saved) = 2
  /\ trail.redone = 2
  /\ doc = trail.saved[1].doc
  /\ sel = trail.saved[1].sel
  /\ sel # Cursor(0)

\* C10: an undo that follows the tracked edits of the top record, were they one
\* or several merged into it, restores the document and the selection that
\* existed before the first of them.
C10_UndoRestoresFirstSelection ==
  [][(op'.name = "undo" /\ ret' = "true" /\ group # <<>>)
       => /\ doc' = group[1].doc
          /\ sel' = group[1].sel]_vars

\* an undo has just reversed a record that two or more edits were merged into
C10_Witness ==
  /\ op.name = "undo"
  /\ ret = "true"
  /\ op.edits >= 2
  /\ doc \in InitDocs

\* C2: the undo of a tracked insertion that untracked insertions followed, before,
\* after or inside the inserted text, removes the characters the tracked edit
\* inserted ("t") and keeps every other character, in order.
C2_UntrackedTolerance ==
  [][(op'.name = "undo" /\ ret' = "true")
       => doc' = SelectSeq(doc, LAMBDA c : c # "t")]_vars

\* the change a tracked edit has just recorded: the last one of the top record
NewChange(h) == Top(h.done).map[Len(Top(h.done).map)]

Folds(h, time, iso, cur) ==
  /\ h.prevTime # <<>>
  /\ time - h.prevTime[1] < NewGroupDelay
  /\ iso \notin {"before", "full"}
  /\ Len(h.done) > 0
  /\ Top(h.done).isChange
  /\ MayMerge(Policy, LastChange(Top(h.done).map), cur)

ChangeRecords(branch) == SelectSeq(branch, LAMBDA it : it.isChange)

\* whether a command finds nothing to pop: no history, or a branch without a
\* change record (undo, redo) or without any record (undoSelection, redoSelection)
NothingToPop(name) ==
  \/ ~installed
  \/ name = "undo" /\ ChangeRecords(hist.done) = <<>>
  \/ name = "redo" /\ ChangeRecords(hist.undone) = <<>>
  \/ name = "undoSelection" /\ hist.done = <<>>
  \/ name = "redoSelection" /\ hist.undone = <<>>

\* C4: a command that finds nothing to pop returns false without throwing and
\* leaves the document, the selection and the history state as they were.
C4_NothingToUndoIsNoOp ==
  [][(op'.name \in {"undo", "redo", "undoSelection", "redoSelection"}
      /\ nops' = nops - 1
      /\ NothingToPop(op'.name))
       => /\ ret' = "false"
          /\ doc' = doc
          /\ sel' = sel
          /\ hist' = hist]_vars

\* undo has just returned false on a done branch that holds records, none of them
\* a change record
C4_Witness ==
  /\ installed
  /\ op.name = "undo"
  /\ ret = "false"
  /\ Len(hist.done) > 0
  /\ ChangeRecords(hist.done) = <<>>

\* C5: an undo that returns true takes one from undoDepth and adds one to
\* redoDepth, and a redo that returns true does the reverse.
C5_DepthTransfer ==
  [][(op'.name \in {"undo", "redo"} /\ nops' = nops - 1 /\ ret' = "true")
       => IF op'.name = "undo"
            THEN undoDepth' = undoDepth - 1 /\ redoDepth' = redoDepth + 1
            ELSE redoDepth' = redoDepth - 1 /\ undoDepth' = undoDepth + 1]_vars

\* C6 as claimed: an untracked edit leaves undoDepth and redoDepth as they are.
C6_UntrackedKeepsDepths ==
  [][op'.name = "receive" => (undoDepth' = undoDepth /\ redoDepth' = redoDepth)]_vars

\* C6 as amended: undoDepth and redoDepth are the numbers of change records of the
\* done and undone branch; an untracked edit leaves redoDepth as it is, and
\* undoDepth too unless the record it appends trims the done branch (which then
\* held minDepth + 20 items), when undoDepth does not grow.
C6_UntrackedKeepsDepthsUnlessTrim ==
  [][op'.name = "receive"
       => /\ undoDepth' = Len(ChangeRecords(hist'.done))
          /\ redoDepth' = Len(ChangeRecords(hist'.undone))
          /\ redoDepth' = redoDepth
          /\ IF Len(hist.done) < minDepth + Grace
               THEN undoDepth' = undoDepth
               ELSE undoDepth' <= undoDepth]_vars

\* an untracked edit has just added its record to a done branch that holds a
\* change record, beside an undone branch that holds one too
C6_Witness ==
  /\ op.name = "receive"
  /\ undoDepth >= 1
  /\ redoDepth >= 1
  /\ Len(hist.done) > undoDepth

\* C7: after n isolated tracked edits with n > minDepth + 20, and no undo, undoDepth
\* is less than n; with no untracked edit among them, the records kept are those
\* of the latest edits.
C7_DepthCap ==
  hist.undone = <<>>
    => /\ Count(doc, "t") > minDepth + Grace => undoDepth < Count(doc, "t")
       /\ Count(doc, "u") = 0
          => \A i \in 1..Len(hist.done) :
               hist.done[i].map[1].from = Len(doc) - Len(hist.done) + i - 1

\* the edit that made the done branch outgrow minDepth + 20 has just been made
C7_Witness ==
  /\ hist.undone = <<>>
  /\ Count(doc, "u") = 0
  /\ Count(doc, "t") = minDepth + Grace + 1
  /\ undoDepth = minDepth + 2

\* C8: with no undo, once minDepth tracked edits have been recorded the done
\* branch keeps at least minDepth change records.
C8_MinDepthRetained ==
  (hist.undone = <<>> /\ Count(doc, "t") >= minDepth) => undoDepth >= minDepth

C11_RedoRestoresSelectionAfterChange ==
  [][(op'.name = "redo" /\ ret' = "true" /\ lastEdit # <<>>)
       => sel' = lastEdit[1].sel]_vars

\* how many characters of the initial document lie before position pos of d
Original(d, pos) == Cardinality({i \in 1..pos : d[i] \notin {"t", "u"}})

\* whether every range of a selection lies within a document
InDocument(s, d) ==
  \A i \in 1..Len(s) : s[i].anchor \in 0..Len(d) /\ s[i].head \in 0..Len(d)

\* whether selection s in document d points at the same text of the initial
\* document as selection prior did in the initial document
SameText(s, d, prior) ==
  /\ Len(s) = Len(prior)
  /\ \A i \in 1..Len(s) : /\ Original(d, s[i].anchor) = prior[i].anchor
                          /\ Original(d, s[i].head) = prior[i].head

\* whether the top of the done branch is the record of an untracked edit, with a
\* change record below it
BelowUntracked(h) ==
  /\ Len(h.done) > 0
  /\ ~Top(h.done).isChange
  /\ Top(h.done).selection = <<>>
  /\ ChangeRecords(h.done) # <<>>

\* C12: an undo or undoSelection of a record that lies below untracked edits succeeds
\* and restores the record's prior selection rebased over those edits: every range
\* lies within the document and points at the same text as before.
C12_SelectionRebasing ==
  [][(op'.name \in {"undo", "undoSelection"} /\ BelowUntracked(hist))
       => /\ ret' = "true"
          /\ InDocument(sel', doc')
          /\ SameText(sel', doc', Top(ChangeRecords(hist.done)).selection[1])]_vars

\* whether untracked deletions have consumed all the text the tracked insertions
\* of the done branch put in
Collapsed(h, d) == BelowUntracked(h) /\ Count(d, "t") = 0

\* C13: when untracked deletions have consumed the whole range of every edit of the
\* top change record, undo does not throw, leaves the document unchanged, returns
\* false and adds nothing that redo could redo; a redo right after returns false.
C13_CollapsedUndo ==
  [][/\ (op'.name = "undo" /\ Collapsed(hist, doc))
        => /\ ret' = "false"
           /\ doc' = doc
           /\ redoDepth' = redoDepth
     /\ (op'.name = "redo" /\ op.name = "undo" /\ doc = doc' /\ Count(doc, "t") = 0
           /\ trail.saved # <<>> /\ Count(Top(trail.saved).doc, "t") = 0)
        => ret' = "false"]_vars

\* C14: after tracked edits followed by untracked edits, the redos that follow
\* a run of undos restore the document that existed before the first undo, and
\* further runs of undos and redos keep returning to the same two documents:
\* the one before the first undo whenever nothing is left to redo, and the one
\* the first complete run of undos gave whenever nothing is left to undo.
C14_RoundTripAcrossUntracked ==
  /\ ret # "throw"
  /\ (trail.top # <<>> /\ redoDepth = 0) => doc = trail.top[1]
  /\ (trail.low # <<>> /\ undoDepth = 0) => doc = trail.low[1]

\* C15: a tracked edit marked "before" or "full", and the tracked edit that follows
\* one marked "after" or "full", starts a record of its own and leaves the records
\* before it as they were, also inside the grouping window and next to the last
\* recorded change.
C15_IsolationOverridesWindow ==
  [][(/\ op'.name = "tracked"
      /\ installed
      /\ \/ op'.iso \in {"before", "full"}
         \/ lastEdit # <<>> /\ lastEdit[1].closed)
       => /\ Len(Top(hist'.done).map) = 1
          /\ Top(hist'.done).selection = <<sel>>
          /\ Len(hist.done) < minDepth + Grace
             => /\ undoDepth' = undoDepth + 1
                /\ SubSeq(hist'.done, 1, Len(hist'.done) - 1) = hist.done]_vars

\* three tracked edits one time unit apart, each next to the one before it, have
\* been kept in three records by isolation markers, the last edit unmarked itself
C15_Witness ==
  /\ op.name = "tracked"
  /\ op.iso = "none"
  /\ Len(hist.done) = 3
  /\ undoDepth = 3
  /\ lastEdit[1].time = 3
  /\ isAdjacent(LastChange(hist.done[1].map), hist.done[2].map[1])
  /\ isAdjacent(LastChange(hist.done[2].map), hist.done[3].map[1])

\* whether two histories hold the same records but for the top one of the first
SameBelowTop(branch, before) ==
  Len(branch) = Len(before) /\ SubSeq(branch, 1, Len(branch) - 1) = SubSeq(before, 1, Len(before) - 1)

\* C16: a tracked edit is folded into the top record only if it arrives less than
\* newGroupDelay after the previous tracked edit and the configured predicate
\* accepts it next to the last recorded change; an edit the predicate rejects
\* starts a new record; and an undo reverses exactly the edits made since the last
\* edit that started a record.
C16_CustomMergePredicate ==
  [][/\ (op'.name = "tracked" /\ Len(hist.done) > 0)
        => LET accepted == MayMerge(joinPredicate, LastChange(Top(hist.done).map),
                                    NewChange(hist'))
               inWindow == lastEdit # <<>> /\ now' - lastEdit[1].time < NewGroupDelay
           IN /\ SameBelowTop(hist'.done, hist.done) => (accepted /\ inWindow)
              /\ ~accepted => /\ SubSeq(hist'.done, 1, Len(hist'.done) - 1) = hist.done
                              /\ Len(Top(hist'.done).map) = 1
                              /\ undoDepth' = undoDepth + 1
              /\ (accepted /\ inWindow) => /\ SameBelowTop(hist'.done, hist.done)
                                           /\ undoDepth' = undoDepth
     /\ (op'.name = "undo" /\ op.name = "tracked")
        => /\ ret' = "true"
           /\ doc' = group[1].doc
           /\ sel' = group[1].sel]_vars

\* under the predicate that merges insertions only, a deletion made inside the
\* grouping window and next to the insertion before it has started a record
C16_Witness ==
  /\ joinPredicate = "adjacentInsertion"
  /\ op.name = "tracked"
  /\ now = 2
  /\ undoDepth = 2
  /\ NewChange(hist).to > NewChange(hist).from
  /\ isAdjacent(LastChange(hist.done[1].map), NewChange(hist))

\* whether change cur touches the text that the last change of a record put in,
\* where that text lies after an untracked edit
AdjacentOver(record, untracked, cur) ==
  LET prev == record.map[Len(record.map)]
  IN /\ cur.from <= mapPos(untracked, prev.from + prev.length, -1)
     /\ cur.to >= mapPos(untracked, prev.from, 1)

\* whether the done branch ends in a change record followed by the record of one
\* untracked edit
UntrackedOnTop(branch) ==
  /\ Len(branch) >= 2
  /\ ~Top(branch).isChange
  /\ Top(branch).selection = <<>>
  /\ branch[Len(branch) - 1].isChange

\* C17: a tracked edit without isolation marker that follows a tracked edit inside
\* the grouping window, separated from it only by an untracked edit and adjacent
\* to it, joins its record, so undoDepth does not grow, and the undo that follows
\* removes the text of both tracked edits and leaves the untracked text.
C17_GroupingAroundUntracked ==
  [][/\ (/\ op'.name = "tracked"
         /\ op'.iso = "none"
         /\ op.name = "receive"
         /\ UntrackedOnTop(hist.done)
         /\ ~lastEdit[1].closed
         /\ now' - lastEdit[1].time < NewGroupDelay
         /\ AdjacentOver(hist.done[Len(hist.done) - 1], Top(hist.done).map, NewChange(hist')))
        => undoDepth' = undoDepth
     /\ (/\ op'.name = "undo"
         /\ op.name = "tracked"
         /\ op.iso = "none"
         /\ Len(hist.done) = 3
         /\ UntrackedOnTop(SubSeq(hist.done, 1, 2))
         /\ Count(doc, "t") = 2
         /\ AdjacentOver(hist.done[1], hist.done[2].map, hist.done[3].map[1]))
        => doc' = SelectSeq(doc, LAMBDA c : c # "t")]_vars

\* C18: a tracked selection-only transaction leaves undoDepth and redoDepth as they
\* are, and the tracked document edit that follows it starts a record of its own
\* above the records already there, so undoDepth grows by one (type, select, type
\* gives undoDepth 2).
C18_SelectionPreventsMerge ==
  [][(installed /\ Len(hist.done) < minDepth + Grace)
       => /\ op'.name = "select"
             => /\ undoDepth' = undoDepth
                /\ redoDepth' = redoDepth
          /\ (op'.name = "tracked" /\ op.name = "select")
             => /\ SubSeq(hist'.done, 1, Len(hist'.done) - 1) = hist.done
                /\ Len(Top(hist'.done).map) = 1
                /\ undoDepth' = undoDepth + 1]_vars

\* a tracked edit, a selection-only transaction and a tracked edit next to the
\* first one, each one time unit after the one before and none of them marked,
\* have left two change records
C18_Witness ==
  /\ installed
  /\ op.name = "tracked"
  /\ op.iso = "none"
  /\ now = 3
  /\ Len(hist.done) = 3
  /\ ~hist.done[2].isChange
  /\ hist.done[2].selection # <<>>
  /\ isAdjacent(LastChange(hist.done[1].map), NewChange(hist))
  /\ undoDepth = 2

\* C19: a selection-only transaction that follows another one with the same
\* keyboard user event joins its record, so the done branch does not grow and the
\* record keeps the selection before the first of them, which one undoSelection
\* restores; a selection-only transaction with no user event, or another one than
\* the transaction before it, adds a record of its own.
C19_SelectionGroupingByCause ==
  [][/\ (/\ op'.name = "select"
         /\ op.name = "select"
         /\ op'.cause = "keyboard"
         /\ op.cause = "keyboard"
         /\ SameShape(sel, sel'))
        => /\ Len(hist'.done) = Len(hist.done)
           /\ Top(hist'.done).selection = Top(hist.done).selection
     /\ (/\ op'.name = "select"
         /\ op.name = "select"
         /\ op'.cause = "none" \/ op.cause # op'.cause)
        => /\ hist'.done = Append(hist.done, Top(hist'.done))
           /\ Top(hist'.done).selection = <<sel>>
     /\ (op'.name = "undoSelection" /\ op.name = "select")
        => /\ ret' = "true"
           /\ sel' = Top(hist.done).selection[1]]_vars

TopChange(branch) ==
  IF \E i \in 1..Len(branch) : branch[i].isChange
    THEN CHOOSE i \in 1..Len(branch) :
           branch[i].isChange /\ \A j \in (i + 1)..Len(branch) : ~branch[j].isChange
    ELSE 0

\* C21: undo uses the OnlyChanges filter. When the done branch holds no change
\* record, selection-only records or not, undo returns false and leaves the
\* document, the selection and the history as they are; an undo that returns true
\* never stops at a selection-only record: it takes the topmost change record and
\* everything above it off the done branch, keeps what lies below, and leaves at
\* most one item in their place, which is not a change record.
C21_UndoSkipsSelectionRecords ==
  [][(op'.name = "undo" /\ installed)
       => /\ eventCount(hist, "Done") = 0
             => /\ ret' = "false"
                /\ doc' = doc
                /\ sel' = sel
                /\ hist' = hist
          /\ eventCount(hist, "Done") > 0
             => /\ ret' = "true"
                /\ eventCount(hist', "Done") = eventCount(hist, "Done") - 1
                /\ SubSeq(hist'.done, 1, TopChange(hist.done) - 1)
                     = SubSeq(hist.done, 1, TopChange(hist.done) - 1)
                /\ Len(hist'.done) \in {TopChange(hist.done) - 1, TopChange(hist.done)}
                /\ Len(hist'.done) = TopChange(hist.done)
                     => ~hist'.done[Len(hist'.done)].isChange]_vars

\* the history holds only a selection-only record, and undo has just refused
C21_Witness ==
  /\ op.name = "undo"
  /\ installed
  /\ ret = "false"
  /\ Len(hist.done) = 1
  /\ ~hist.done[1].isChange
  /\ hist.done[1].selection # <<>>
  /\ sel # Cursor(0)

\* whether the top item of a branch is a selection-only record
SelectionOnTop(branch) ==
  /\ Len(branch) > 0
  /\ ~branch[Len(branch)].isChange
  /\ branch[Len(branch)].selection # <<>>

\* whether the top item of a branch is a change record
ChangeOnTop(branch) == Len(branch) > 0 /\ branch[Len(branch)].isChange

\* C22: undoSelection and redoSelection use the Any filter. With a selection-only
\* record on top of the done branch, undoSelection returns true, restores the
\* selection the record holds (right after the selection-only transaction: the
\* selection before it) and leaves the document as it is; a redoSelection that
\* answers such an undoSelection restores the selection that undoSelection
\* replaced and leaves the document as it is. With a change record on top, they
\* do what undo and redo do.
C22_UndoSelectionUsesAny ==
  [][/\ (op'.name = "undoSelection" /\ installed /\ SelectionOnTop(hist.done))
        => /\ ret' = "true"
           /\ doc' = doc
           /\ sel' = hist.done[Len(hist.done)].selection[1]
           /\ op.name = "select" => sel' = op.prior
     /\ (/\ op'.name = "redoSelection"
         /\ installed
         /\ SelectionOnTop(hist.undone)
         /\ trail.redone < Len(trail.saved))
        => /\ ret' = "true"
           /\ doc' = doc
           /\ sel' = trail.saved[Len(trail.saved) - trail.redone].sel
     /\ (op'.name = "undoSelection" /\ installed /\ ChangeOnTop(hist.done))
        => LET r == pop(hist, "Done", "OnlyChanges", doc, sel, minDepth)
           IN /\ ret' = (IF r.ok THEN "true" ELSE "throw")
              /\ r.ok => doc' = r.doc /\ sel' = r.selection /\ hist' = r.state
              /\ (r.ok /\ group # <<>>) => doc' = group[1].doc /\ sel' = group[1].sel
     /\ (op'.name = "redoSelection" /\ installed /\ ChangeOnTop(hist.undone))
        => LET r == pop(hist, "Undone", "OnlyChanges", doc, sel, minDepth)
           IN /\ ret' = (IF r.ok THEN "true" ELSE "throw")
              /\ r.ok => doc' = r.doc /\ sel' = r.selection /\ hist' = r.state
              /\ (r.ok /\ trail.redone < Len(trail.saved))
                   => doc' = trail.saved[Len(trail.saved) - trail.redone].doc]_vars

\* a selection-only transaction was undone by undoSelection, and redoSelection
\* has just brought its selection back
C22_Witness ==
  /\ op.name = "redoSelection"
  /\ ret = "true"
  /\ trail.redone = 1
  /\ Len(trail.saved) = 1
  /\ sel = trail.saved[1].sel
  /\ sel # Cursor(0)
  /\ hist.undone = <<>>
  /\ SelectionOnTop(hist.done)

\* C25: on either branch of the history and under either filter, popChanges
\* raises its error exactly when the branch is empty, or the filter is
\* OnlyChanges and the branch holds no change record; canPop answers true exactly
\* when popChanges completes.
C25_CanPopIffPopChangesCompletes ==
  \A done \in PopTargets, only \in ItemFilters :
    LET branch == Target(hist, done)
        raises == ~popChanges(branch, only).ok
    IN /\ raises <=> \/ Len(branch) = 0
                     \/ only = "OnlyChanges" /\ \A i \in 1..Len(branch) : ~branch[i].isChange
       /\ canPop(hist, done, only) <=> ~raises

\* the done branch holds items and none of them is a change record, so popChanges
\* completes on it under Any and raises under OnlyChanges; the undone branch
\* holds a change record
C25_Witness ==
  /\ Len(hist.done) > 0
  /\ \A i \in 1..Len(hist.done) : ~hist.done[i].isChange
  /\ popChanges(hist.done, "Any").ok
  /\ ~popChanges(hist.done, "OnlyChanges").ok
  /\ ChangeOnTop(hist.undone)

\* C26: in every reachable history state, every Item of either branch holds a
\* prior selection if and only if it holds inverted changes; an Item without
\* inverted changes never holds a selection.
C26_ItemWellFormed ==
  \A done \in PopTargets :
    \A i \in 1..Len(Target(hist, done)) :
      (Target(hist, done)[i].selection # <<>>) <=> Target(hist, done)[i].isChange

\* C27: a selection-only transaction that is added to the history puts on the done
\* branch a change record, with empty inverted changes, that holds the selection
\* before the transaction.
C27_SelectionOnlyIsChangeRecord ==
  [][(op'.name = "select" /\ installed)
       => /\ Len(hist'.done) > 0
          /\ Top(hist'.done).isChange
          /\ Top(hist'.done).inverted = <<>>
          /\ Top(hist'.done).selection = <<sel>>]_vars

\* C28: an untracked document edit appends an Item that is not a change record
\* and holds the edit's map to the done branch when that branch holds items, and
\* an Item with the same map to the undone branch when that branch holds items.
C28_UntrackedThreadedThroughBothBranches ==
  [][(op'.name = "receive" /\ installed)
       => /\ Len(hist.done) > 0
             => /\ Len(hist'.done) = Len(hist.done) + 1
                /\ ~Top(hist'.done).isChange
                /\ Top(hist'.done).selection = <<>>
          /\ Len(hist.undone) > 0
             => /\ Len(hist'.undone) = Len(hist.undone) + 1
                /\ ~Top(hist'.undone).isChange
                /\ Top(hist'.undone).selection = <<>>
                /\ Len(hist.done) > 0 => Top(hist'.undone).map = Top(hist'.done).map]_vars

\* what popChanges gives on either branch of h when its scan stops at the top
\* Item: that Item's inverted changes and selection, and the Items below it
PopsTopItem(h) ==
  \A done \in PopTargets, only \in ItemFilters :
    LET branch == Target(h, done) IN
    (Len(branch) > 0 /\ (only = "Any" \/ Top(branch).isChange))
      => popChanges(branch, only) =
           [ok |-> TRUE, changes |-> Top(branch).inverted,
            branch |-> SubSeq(branch, 1, Len(branch) - 1),
            selection |-> Top(branch).selection]

\* C30: when the scan of popChanges stops at the top Item of the branch, having
\* passed no other Item, popChanges returns that Item's inverted changes, that
\* Item's selection and the Items below it, unchanged and in order. So an undo
\* with a change record on top of the done branch applies the record's inverted
\* changes to the document, sets the record's selection and leaves the done
\* branch with the Items below the record; a redo does the same on the undone
\* branch.
C30_PopOfTopItem ==
  [][/\ PopsTopItem(hist)
     /\ PopsTopItem(hist')
     /\ (op'.name = "undo" /\ installed /\ ChangeOnTop(hist.done))
        => /\ ret' = "true"
           /\ doc' = ApplySet(Top(hist.done).inverted, doc)
           /\ sel' = Top(hist.done).selection[1]
           /\ hist'.done = SubSeq(hist.done, 1, Len(hist.done) - 1)
     /\ (op'.name = "redo" /\ installed /\ ChangeOnTop(hist.undone) /\ ret' = "true")
        => /\ doc' = ApplySet(Top(hist.undone).inverted, doc)
           /\ sel' = Top(hist.undone).selection[1]
           /\ hist'.undone = SubSeq(hist.undone, 1, Len(hist.undone) - 1)]_vars

\* an undo has just popped a change record that lay on top of another record,
\* which is now the top of the done branch
C30_Witness ==
  /\ op.name = "undo"
  /\ ret = "true"
  /\ Len(hist.done) = 1
  /\ ChangeOnTop(hist.done)
  /\ Len(hist.undone) = 1
  /\ ChangeOnTop(hist.undone)
  /\ doc # <<>>

C23_EffectRestoration ==
  [][/\ (/\ op'.name = "undo"
         /\ ret' = "true"
         /\ op.name \in {"tracked", "receive"}
         /\ lastEdit # <<>>)
        => field' = lastEdit[1].was
     /\ (/\ op'.name = "redo"
         /\ ret' = "true"
         /\ trail.redone < Len(trail.saved))
        => field' = trail.saved[Len(trail.saved) - trail.redone].field]_vars

\* C29: no operation (addChanges, addMapping, resetTime, pop) changes an array
\* or a HistoryState object that exists when it is called: the done branch, the
\* undone branch and the time of every state returned before stay what they
\* were. The state an operation returns is a new object, except that addMapping
\* returns the state it was called on when that state's done branch is empty.
C29_ReturnedStatesImmutable ==
  [][/\ Len(heap'.arrays) >= Len(heap.arrays)
     /\ \A a \in 1..Len(heap.arrays) : heap'.arrays[a] = heap.arrays[a]
     /\ Len(heap'.states) >= Len(heap.states)
     /\ \A s \in 1..Len(heap.states) :
          /\ heap'.states[s] = heap.states[s]
          /\ Deref(heap', s) = Deref(heap, s)
     /\ \A e \in 1..Len(heap.editors) : heap'.editors[e] = heap.editors[e]
     /\ op'.name \in {"addChanges", "addMapping", "resetTime", "pop"}
          => LET on == heap.editors[op'.on].state
                 result == heap'.editors[Len(heap'.editors)].state
             IN IF op'.name = "addMapping" /\ Len(Deref(heap, on).done) = 0
                  THEN result = on
                  ELSE result = Len(heap.states) + 1 /\ Len(heap'.states) = result]_vars

\* a pop was called on a state whose done branch array two earlier states hold as
\* well, and returned a new state
C29_Witness ==
  /\ op.name = "pop"
  /\ Len(heap.states) >= 4
  /\ \E s, t \in 1..Len(heap.states) :
       /\ s < t
       /\ t < Len(heap.states)
       /\ heap.states[s].done = heap.states[t].done
       /\ heap.states[heap.editors[op.on].state].done = heap.states[s].done
       /\ Len(heap.arrays[heap.states[s].done]) > 0

\* the maps of the Items above place k of a branch, lowest first
RECURSIVE MapsAbove(_, _)
MapsAbove(branch, k) ==
  IF k >= Len(branch) THEN <<>> ELSE appendSet(branch[k + 1].map, MapsAbove(branch, k + 1))

\* C31: when undo or redo, popping under OnlyChanges, passes one or more Items
\* that are not change records above the topmost change record of its branch, the
\* branch is left with the Items below that record followed by exactly one Item,
\* which is not a change record, holds no selection and has a map that starts
\* with the record's map followed by the maps of the Items passed; the branch
\* holds one change record less.
C31_PopAcrossPassThrough ==
  [][\A done \in PopTargets :
       LET branch == Target(hist, done)
           after == Target(hist', done)
           k == TopChange(branch)
       IN (/\ op'.name = (IF done = "Done" THEN "undo" ELSE "redo")
           /\ installed
           /\ k > 0
           /\ k < Len(branch))
          => /\ ret' = "true"
             /\ Len(after) = k
             /\ SubSeq(after, 1, k - 1) = SubSeq(branch, 1, k - 1)
             /\ ~after[k].isChange
             /\ after[k].selection = <<>>
             /\ after[k].inverted = <<>>
             /\ Len(after[k].map) >= Len(branch[k].map) + Len(MapsAbove(branch, k))
             /\ SubSeq(after[k].map, 1, Len(branch[k].map) + Len(MapsAbove(branch, k)))
                  = appendSet(branch[k].map, MapsAbove(branch, k))
             /\ eventCount(hist', done) = eventCount(hist, done) - 1]_vars

\* an undo has just passed two untracked edits above the record it popped, which
\* lay on top of another record
C31_Witness ==
  /\ op.name = "undo"
  /\ ret = "true"
  /\ Len(hist.done) = 2
  /\ hist.done[1].isChange
  /\ ~hist.done[2].isChange
  /\ Len(hist.done[2].map) >= 4
  /\ ChangeOnTop(hist.undone)

\* the merge predicates a history can be configured with
MergePredicates == {"nope", "isAdjacent", "adjacentInsertion", "always"}

\* C32: resetTime gives a state without a last-edit time and with both branches
\* unchanged, and the tracked edit that follows it starts a new Item on the done
\* branch whatever its time and whatever the merge predicate: in every state for
\* every edit, time and predicate, and in every step of a tracked edit that is
\* marked isolated before or that follows an edit marked isolated after.
C32_ResetTimeGroupBoundary ==
  [][/\ resetTime(hist).prevTime = <<>>
     /\ resetTime(hist).done = hist.done
     /\ resetTime(hist).undone = hist.undone
     /\ \A chs \in TrackedChanges(doc), time \in now..(now + NewGroupDelay),
           mayMerge \in MergePredicates :
          HistoryAddChanges(resetTime(hist), chs, TRUE, InvertedChanges(chs, doc), sel,
                            mayMerge, time, NewGroupDelay, minDepth).done
            = Append(hist.done, Item(DescSet(chs), TRUE, InvertedChanges(chs, doc), <<sel>>))
     /\ (/\ op'.name = "tracked"
         /\ \/ op'.iso \in {"before", "full"}
            \/ op.name = "tracked" /\ op.iso \in {"after", "full"})
        => /\ Len(hist'.done) = Len(hist.done) + 1
           /\ SubSeq(hist'.done, 1, Len(hist.done)) = hist.done
           /\ Top(hist'.done).isChange
           /\ hist'.undone = hist.undone]_vars

\* an unmarked edit inside the grouping window and adjacent to the edit before
\* it, which was marked isolated after, has started a second Item
C32_Witness ==
  /\ op.name = "tracked"
  /\ op.iso = "none"
  /\ lastEdit # <<>>
  /\ Len(hist.done) = 2
  /\ hist.prevTime # <<>>
  /\ hist.done[1].isChange
  /\ hist.done[2].isChange
  /\ now = 2
  /\ nops = MaxTimedOps - 2
  /\ isAdjacent(LastChange(hist.done[1].map), hist.done[2].map[1])

\* C33: the state a pop returns has no last-edit time, for either branch and
\* either filter, and the tracked edit that follows a successful undo or redo
\* adds an Item to the done branch and changes none below it, whatever its time
\* and its position.
C33_PopClearsLastEditTime ==
  [][/\ \A done \in PopTargets, only \in ItemFilters :
         \A r \in {pop(hist, done, only, doc, sel, minDepth)} :
           (canPop(hist, done, only) /\ r.ok) => r.state.prevTime = <<>>
     /\ (op'.name \in {"undo", "redo"} /\ ret' = "true") => hist'.prevTime = <<>>
     /\ (op.name \in {"undo", "redo"} /\ ret = "true" /\ op'.name = "tracked")
        => /\ Len(hist'.done) = Len(hist.done) + 1
           /\ SubSeq(hist'.done, 1, Len(hist.done)) = hist.done
           /\ eventCount(hist', "Done") = eventCount(hist, "Done") + 1]_vars

\* an insertion into the empty document, a deletion of it in a second group and
\* an undo of the deletion (the record on the undone branch) are followed by an
\* adjacent insertion inside the grouping window: the undo depth is 2
C33_Witness ==
  /\ op.name = "tracked"
  /\ op.iso = "none"
  /\ nops = 0
  /\ now <= NewGroupDelay + 2
  /\ Len(doc) = 2
  /\ \A i \in 1..Len(doc) : doc[i] \notin {"x", "y"}
  /\ Len(hist.undone) = 1
  /\ hist.undone[1].inverted[1].text = <<>>
  /\ Len(hist.done) = 2
  /\ undoDepth = 2
  /\ isAdjacent(LastChange(hist.done[1].map), hist.done[2].map[1])

Opposite(done) == IF done = "Done" THEN "Undone" ELSE "Done"

C36_BranchSizeBound ==
  [][/\ Len(hist.done) <= minDepth + Grace
     /\ Len(hist.undone) <= minDepth + Grace
     /\ Len(hist'.done) <= minDepth + Grace
     /\ Len(hist'.undone) <= minDepth + Grace
     /\ op'.name = "tracked"
          => /\ Top(hist'.done).isChange
             /\ Top(Top(hist'.done).map) = Desc(Insertion(Len(doc), <<"t">>))
             /\ Top(hist'.done).selection = <<sel>>
     /\ (op'.name = "receive" /\ Len(hist.done) > 0)
          => Top(hist'.done) = MapItem(DescSet(<<Insertion(0, <<"u">>)>>))
     /\ (op'.name = "undo" /\ ret' = "true")
          => /\ Top(hist'.undone).isChange
             /\ Top(hist'.undone).selection = <<sel>>
             /\ ApplySet(Top(hist'.undone).inverted, doc') = doc
     /\ (op'.name = "redo" /\ ret' = "true")
          => /\ Top(hist'.done).isChange
             /\ Top(hist'.done).selection = <<sel>>
             /\ ApplySet(Top(hist'.done).inverted, doc') = doc]_vars

\* minDepth + Grace + 1 tracked insertions were made and all of them undone, so as
\* many records were pushed onto the undone branch, and the last push has cut the
\* branch back to minDepth + 2 Items
C36_Witness ==
  /\ op.name = "undo"
  /\ ret = "true"
  /\ now = minDepth + Grace + 1
  /\ doc = <<>>
  /\ hist.done = <<>>
  /\ Len(hist.undone) = minDepth + 2

\* C37: in every reachable state, for each branch and filter for which canPop
\* holds, the edits popChanges returns are defined over the current document:
\* applied in order, each of them lies inside the document it is applied to.
C37_PoppedEditsApplicable ==
  \A done \in PopTargets, only \in ItemFilters :
    (installed /\ canPop(hist, done, only)) =>
      \E p \in {popChanges(Target(hist, done), only)} :
        /\ p.ok
        /\ TransactionChange(p.changes, <<>>, doc).ok

\* C38: in every reachable state, for each branch and filter for which canPop
\* holds, popChanges finds an Item and returns a selection for pop to hand to the
\* transaction.
C38_PopSelectionDefined ==
  \A done \in PopTargets, only \in ItemFilters :
    (installed /\ canPop(hist, done, only)) =>
      /\ popChanges(Target(hist, done), only).ok
      /\ popChanges(Target(hist, done), only).selection # <<>>

\* C39: every undo command either finds no change record on the done branch and
\* returns false, or succeeds and leaves the done branch with one change record
\* less, so a run of undo commands ends after at most undoDepth successes with
\* canPop false; and the same for redo and the undone branch.
C39_RepeatedPopTerminates ==
  [][/\ op'.name = "undo"
          => IF eventCount(hist, "Done") = 0
               THEN ret' = "false" /\ hist' = hist
             ELSE /\ ret' = "true"
                  /\ eventCount(hist', "Done") = eventCount(hist, "Done") - 1
     /\ op'.name = "redo"
          => IF eventCount(hist, "Undone") = 0
               THEN ret' = "false" /\ hist' = hist
             ELSE /\ ret' = "true"
                  /\ eventCount(hist', "Undone") = eventCount(hist, "Undone") - 1]_vars

\* C40: a tracked edit made exactly newGroupDelay after the last-edit time, or on
\* a state without a last-edit time, starts a new Item on the done branch, whatever
\* the edit and the merge predicate: for every edit and predicate in every state,
\* and on every step of an unmarked tracked edit that comes newGroupDelay after
\* the tracked edit before it or finds no last-edit time.
C40_WindowBoundary ==
  [][/\ \A chs \in TrackedChanges(doc), mayMerge \in MergePredicates,
          prevTime \in {<<>>, <<now>>, hist.prevTime} :
          \A h \in {HistoryState(hist.done, hist.undone, prevTime)} :
            \A time \in (IF prevTime = <<>> THEN now..(now + NewGroupDelay)
                         ELSE {prevTime[1] + NewGroupDelay}) :
              HistoryAddChanges(h, chs, TRUE, InvertedChanges(chs, doc), sel,
                                mayMerge, time, NewGroupDelay, minDepth).done
                = Append(hist.done, Item(DescSet(chs), TRUE, InvertedChanges(chs, doc), <<sel>>))
     /\ (/\ op'.name = "tracked"
         /\ \/ hist.prevTime = <<>>
            \/ now' - hist.prevTime[1] = NewGroupDelay)
          => /\ Len(hist'.done) = Len(hist.done) + 1
             /\ SubSeq(hist'.done, 1, Len(hist.done)) = hist.done
             /\ Top(hist'.done).isChange
             /\ Len(Top(hist'.done).map) = 1]_vars

\* two unmarked tracked edits, the second adjacent to the first and exactly
\* newGroupDelay after it, have made two Items
C40_Witness ==
  /\ op.name = "tracked"
  /\ op.iso = "none"
  /\ nops = MaxTimedOps - 2
  /\ now = 2 * NewGroupDelay
  /\ hist.prevTime = <<now>>
  /\ Len(hist.done) = 2
  /\ hist.done[1].isChange
  /\ hist.done[2].isChange
  /\ isAdjacent(LastChange(hist.done[1].map), hist.done[2].map[1])

====
